---- MODULE Spec2Model ----
(***************************************************************************)
(* A model of streamlit_app.py: one Streamlit session of the news map.     *)
(* The script is rerun top to bottom after every browser event; the state  *)
(* that survives a rerun is st.session_state, the state of the keyed       *)
(* selectbox and the value the map component reports.  One script run is   *)
(* the sequence StartRun, CountrySelector, BeginStats, StatsRow (once per   *)
(* outlet of the country, each one a feed fetch), EndStats, ClickHandling,  *)
(* RenderFeed.                                                              *)
(*                                                                          *)
(* Time is counted in minutes since an epoch (UTC).  Map points are small   *)
(* numbers; a geometry is the set of points it contains.                    *)
(***************************************************************************)
EXTENDS Integers, Sequences, FiniteSets

\* ------------------------------------------------------------------ bounds

\* The largest number of entries one fetched feed holds.
MaxEntries == 2

\* ------------------------------------------------------------- constants

\* timedelta(hours=1), in minutes.
HourMinutes == 60
\* The length of a calendar day (datetime.date()), in minutes.
DayMinutes == 1440

\* Python's None, and a key st.session_state does not hold yet.
NoneVal == "None"
Absent == "absent"

\* ------------------------------------------------------------ input data

\* str.strip().str.lower() / name.strip().lower() on the names that occur.
StripLower(name) ==
    CASE name \in {"France", " france ", "france"} -> "france"
      [] name \in {"Spain", "spain "} -> "spain"
      [] name \in {"Atlantis"} -> "atlantis"
      [] OTHER -> name

normalize_country(name) == StripLower(name)

\* The rows of cleaned_news_feeds.csv, in file order.
csv_rows ==
    << [country |-> " france ", media_name |-> "le monde", newsfeed_url |-> "u1"],
       [country |-> "France", media_name |-> "afp", newsfeed_url |-> "u2"],
       [country |-> "spain ", media_name |-> "el pais", newsfeed_url |-> "u3"],
       [country |-> "Spain", media_name |-> "el pais", newsfeed_url |-> "u4"] >>

\* load_data(): the rows with the country column normalised.
news_df ==
    [r \in 1..Len(csv_rows) |->
        [csv_rows[r] EXCEPT !.country = StripLower(csv_rows[r].country)]]

\* The countries of the catalog.
AllCountries == {news_df[r].country : r \in 1..Len(news_df)}

\* String order on the country keys and on the media names that occur.
CountryOrder == << "atlantis", "france", "spain" >>
MediaOrder == << "afp", "el pais", "le monde" >>

\* sorted(news_df['country'].dropna().unique())
available_countries == SelectSeq(CountryOrder, LAMBDA c : c \in AllCountries)

\* load_geojson(): the boundary features in dataset order.  Point 2 lies in
\* two features (overlapping boundary data); point 4 lies in none.
geojson ==
    << [name |-> "France", geometry |-> {1, 2}],
       [name |-> "Spain", geometry |-> {2}],
       [name |-> "Atlantis", geometry |-> {3}] >>

Points == {1, 2, 3, 4}

\* The instants datetime.utcnow() returns, and the publish times of entries.
Nows == {1450, 2000}
PubTimes == {1390, 1420, 1445, 1960}

\* The server's time zone: its UTC offset and the daylight-saving shift in
\* force, both in minutes.
ServerZones == { [utcoffset |-> 0, dst |-> 0], [utcoffset |-> 60, dst |-> 60] }

\* One feed entry: published_parsed is missing ("absent"), present but None
\* because the date did not parse ("unparsed"), or a UTC time ("dated").
Entries ==
    { [kind |-> "absent", published_parsed |-> 0],
      [kind |-> "unparsed", published_parsed |-> 0] }
    \cup { [kind |-> "dated", published_parsed |-> t] : t \in PubTimes }

SeqsUpTo(S, n) == UNION { [1..k -> S] : k \in 0..n }

\* What feedparser.parse(url) can do: raise, or return a feed.
FetchResults ==
    { [ok |-> FALSE, entries |-> << >>] }
    \cup { [ok |-> TRUE, entries |-> e] : e \in SeqsUpTo(Entries, MaxEntries) }

VARIABLES
    pc,                       \* where the script run is
    ss_selected_country,      \* st.session_state.selected_country
    selected_country_manual,  \* the value of the keyed selectbox
    widget_index,             \* the index argument of the previous run
    last_clicked,             \* map_data["last_clicked"]
    server_tz,                \* the server's zone
    now,                      \* datetime.utcnow() of the statistics panel
    stats_country,            \* the key of the filter at line 100
    feed_country,             \* the key of the filter at line 171
    row,                      \* the next row of country_media
    outcome,                  \* how the last pass of the outlet loop ended
    news_last_hour, news_today, source_counts,
    \* history variables, read only by the properties
    last_event,               \* the key of the most recent selection event
    within_ttl,               \* same country and minute as the computation before
    ref_hour, ref_today, ref_sources,   \* the totals without the failing outlets
    exp_hour, exp_today       \* the totals by the per-entry rule

vars ==
    << pc, ss_selected_country, selected_country_manual, widget_index,
       last_clicked, server_tz, now, stats_country, feed_country, row, outcome,
       news_last_hour, news_today, source_counts, last_event, within_ttl,
       ref_hour, ref_today, ref_sources, exp_hour, exp_today >>

selection == << ss_selected_country, selected_country_manual, widget_index >>
stats ==
    << now, stats_country, row, outcome, news_last_hour, news_today,
       source_counts >>
history == << within_ttl, ref_hour, ref_today, ref_sources, exp_hour, exp_today >>

\* ------------------------------------------------------ pure definitions

\* available_countries.index(key), 1-based.
IndexOf(seq, x) == CHOOSE k \in 1..Len(seq) : seq[k] = x

\* The index argument of the selectbox (lines 90-91), 1-based.
SelectboxIndex(current) ==
    IF \E k \in 1..Len(available_countries) : available_countries[k] = current
    THEN IndexOf(available_countries, current)
    ELSE 1

\* What st.selectbox can return (lines 87-93).  A widget without state shows
\* options[index].  A widget with state returns it; when the index argument
\* differs from the previous run's, Streamlit versions that derive the
\* widget's identity from its arguments build a new widget showing
\* options[index], and versions that derive it from the key keep the state.
SelectboxValues(manual, previous_index, index) ==
    IF manual = NoneVal
    THEN { available_countries[index] }
    ELSE { manual } \cup
         (IF index # previous_index THEN { available_countries[index] } ELSE {})

\* news_df[news_df['country'] == key]
CountryMedia(key) == SelectSeq(news_df, LAMBDA r : r.country = key)

\* time.mktime(struct): the struct is read as local standard time (its
\* tm_isdst is 0), giving seconds since the epoch.
mktime(struct, tz) == struct - tz.utcoffset

\* datetime.fromtimestamp(ts): the local wall-clock time, daylight saving
\* included.
fromtimestamp(ts, tz) == ts + tz.utcoffset + tz.dst

\* datetime.date(): the calendar day of a time.
Date(t) == t \div DayMinutes

\* The entry loop of one outlet (lines 112-121): the counts, or raised when
\* an entry made time.mktime raise; an exception leaves the loop at once.
RECURSIVE CountEntries(_, _, _, _, _, _)
CountEntries(entries, k, count_hour, count_day, clock, tz) ==
    IF k > Len(entries)
    THEN [raised |-> FALSE, count_hour |-> count_hour, count_day |-> count_day]
    ELSE LET entry == entries[k] IN
         IF entry.kind = "absent"
         THEN CountEntries(entries, k + 1, count_hour, count_day, clock, tz)
         ELSE IF entry.kind = "unparsed"
         THEN [raised |-> TRUE, count_hour |-> count_hour, count_day |-> count_day]
         ELSE LET pub_time == fromtimestamp(mktime(entry.published_parsed, tz), tz)
                  last_hour == clock - HourMinutes
                  today == Date(clock)
              IN  CountEntries(entries, k + 1,
                     count_hour + (IF pub_time > last_hour THEN 1 ELSE 0),
                     count_day + (IF Date(pub_time) = today THEN 1 ELSE 0),
                     clock, tz)

\* The body of the try block up to the entry loop's end (lines 111-121).
TryBody(parsed, clock, tz) ==
    IF parsed.ok
    THEN CountEntries(parsed.entries, 1, 0, 0, clock, tz)
    ELSE [raised |-> TRUE, count_hour |-> 0, count_day |-> 0]

\* How one pass of the outlet loop ends: in the except clause because the
\* fetch raised ("fetch_error") or because an entry made the entry loop raise
\* ("entry_error"), or behind line 125 ("counted").
Outcome(parsed, r) ==
    IF ~parsed.ok THEN "fetch_error"
    ELSE IF r.raised THEN "entry_error"
    ELSE "counted"

\* d[key] = value on a Python dict, kept as the sequence of its items in
\* insertion order: a key already present keeps its place.
DictSet(d, key, value) ==
    IF \E k \in 1..Len(d) : d[k].source = key
    THEN [k \in 1..Len(d) |->
            IF d[k].source = key THEN [source |-> key, count |-> value] ELSE d[k]]
    ELSE Append(d, [source |-> key, count |-> value])

\* A bug the isolation property must notice: the counts gathered before the
\* exception are added to the totals.
AfterRowPartial(acc, media_name, r) ==
    [ news_last_hour |-> acc.news_last_hour + r.count_hour,
      news_today |-> acc.news_today + r.count_day,
      source_counts |->
          IF r.raised THEN acc.source_counts
          ELSE DictSet(acc.source_counts, media_name, r.count_day) ]

\* The end of the try block and the except clause (lines 123-127).
AfterRow(acc, media_name, r) ==
    IF r.raised
    THEN acc
    ELSE [ news_last_hour |-> acc.news_last_hour + r.count_hour,
           news_today |-> acc.news_today + r.count_day,
           source_counts |-> DictSet(acc.source_counts, media_name, r.count_day) ]

\* sorted(items, key=lambda x: -x[1]): a stable sort, so items with equal
\* counts keep their dict order.  InsertByCount puts x behind every item
\* whose count is at least x's.
RECURSIVE InsertByCount(_, _)
InsertByCount(sorted, x) ==
    IF sorted = << >> THEN << x >>
    ELSE IF Head(sorted).count >= x.count
         THEN << Head(sorted) >> \o InsertByCount(Tail(sorted), x)
         ELSE << x >> \o sorted

RECURSIVE SortedByCount(_)
SortedByCount(items) ==
    IF items = << >> THEN << >>
    ELSE InsertByCount(SortedByCount(SubSeq(items, 1, Len(items) - 1)),
                       items[Len(items)])

\* The "News Per Source" listing (lines 132-134).
NewsPerSource == SortedByCount(source_counts)

\* A bug first-match resolution must notice: the loop without its break,
\* which keeps the last containing feature.
RECURSIVE ResolveLastFrom(_, _, _)
ResolveLastFrom(point, k, selected) ==
    IF k > Len(geojson) THEN selected
    ELSE ResolveLastFrom(point, k + 1,
            IF point \in geojson[k].geometry
            THEN normalize_country(geojson[k].name) ELSE selected)

ResolveLast(point) == ResolveLastFrom(point, 1, NoneVal)

\* The feature loop (lines 146-151) from feature k on.
RECURSIVE ResolveFrom(_, _)
ResolveFrom(point, k) ==
    IF k > Len(geojson) THEN NoneVal
    ELSE IF point \in geojson[k].geometry
         THEN normalize_country(geojson[k].name)
         ELSE ResolveFrom(point, k + 1)

\* The value of `selected` after the loop.
ResolvePoint(point) == ResolveFrom(point, 1)

\* A bug the frame property must notice: the assignment without its guard.
ClickAssignAlways(selected, current) == selected

\* if selected: st.session_state.selected_country = selected (lines 152-153)
ClickAssign(selected, current) ==
    IF selected # NoneVal THEN selected ELSE current

\* ----------------------------------------- reference values of the claims

\* An outlet fails when its fetch raises or one of its entries makes the
\* entry loop raise.
Fails(parsed) ==
    \/ ~parsed.ok
    \/ \E k \in 1..Len(parsed.entries) : parsed.entries[k].kind = "unparsed"

\* The entries of a feed the code's window test counts, counted at once.
HourCount(parsed, clock, tz) ==
    Cardinality({ k \in 1..Len(parsed.entries) :
        /\ parsed.entries[k].kind = "dated"
        /\ fromtimestamp(mktime(parsed.entries[k].published_parsed, tz), tz)
              > clock - HourMinutes })

DayCount(parsed, clock, tz) ==
    Cardinality({ k \in 1..Len(parsed.entries) :
        /\ parsed.entries[k].kind = "dated"
        /\ Date(fromtimestamp(mktime(parsed.entries[k].published_parsed, tz), tz))
              = Date(clock) })

\* The per-entry rule of the specification: an entry with a known publish
\* time is in the hour window when now - publishedAt < 1 hour, and in the
\* day window when its UTC date is now's.
RuleHourCount(parsed, clock) ==
    Cardinality({ k \in 1..Len(parsed.entries) :
        /\ parsed.entries[k].kind = "dated"
        /\ clock - parsed.entries[k].published_parsed < HourMinutes })

RuleDayCount(parsed, clock) ==
    Cardinality({ k \in 1..Len(parsed.entries) :
        /\ parsed.entries[k].kind = "dated"
        /\ Date(parsed.entries[k].published_parsed) = Date(clock) })

\* ------------------------------------------------------------------ state


Init ==
    /\ pc = "start"
    /\ ss_selected_country = Absent
    /\ selected_country_manual = NoneVal
    /\ widget_index = 0
    /\ last_clicked = 0
    /\ server_tz \in ServerZones
    /\ now = 0
    /\ stats_country = NoneVal
    /\ feed_country = NoneVal
    /\ row = 1
    /\ outcome = "none"
    /\ news_last_hour = 0
    /\ news_today = 0
    /\ source_counts = << >>
    /\ last_event = [kind |-> "none", key |-> NoneVal]
    /\ within_ttl = FALSE
    /\ ref_hour = 0
    /\ ref_today = 0
    /\ ref_sources = << >>
    /\ exp_hour = 0
    /\ exp_today = 0

\* ---------------------------------------------------------- browser events

\* The user picks another option in the selectbox; Streamlit reruns the script.
UserSelect ==
    /\ pc = "idle"
    /\ \E c \in AllCountries :
          /\ c # selected_country_manual
          /\ selected_country_manual' = c
          /\ last_event' = [kind |-> "explicit", key |-> c]
    /\ pc' = "start"
    /\ UNCHANGED << ss_selected_country, widget_index, last_clicked, server_tz,
                    feed_country, stats, history >>

\* The user clicks the map; st_folium reports the point from then on.
UserClick ==
    /\ pc = "idle"
    /\ \E point \in Points :
          /\ last_clicked' = point
          /\ last_event' =
                IF \E k \in 1..Len(geojson) : point \in geojson[k].geometry
                THEN [kind |-> "click",
                      key |-> normalize_country(
                                 geojson[CHOOSE k \in 1..Len(geojson) :
                                    /\ point \in geojson[k].geometry
                                    /\ \A j \in 1..(k - 1) :
                                          point \notin geojson[j].geometry].name)]
                ELSE last_event
    /\ pc' = "start"
    /\ UNCHANGED << selection, server_tz, feed_country, stats, history >>

\* Any other interaction (a sidebar control) reruns the script.
Rerun ==
    /\ pc = "idle"
    /\ pc' = "start"
    /\ UNCHANGED << selection, last_clicked, server_tz, feed_country, stats,
                    last_event, history >>

\* ------------------------------------------------------------ a script run

\* Lines 38-40.
StartRun ==
    /\ pc = "start"
    /\ ss_selected_country' =
          IF ss_selected_country = Absent THEN NoneVal ELSE ss_selected_country
    /\ pc' = "selector"
    /\ UNCHANGED << selected_country_manual, widget_index, last_clicked,
                    server_tz, feed_country, stats, last_event, history >>

\* Lines 84-95.
CountrySelector ==
    /\ pc = "selector"
    /\ LET index == SelectboxIndex(ss_selected_country) IN
       \E selected_country \in
              SelectboxValues(selected_country_manual, widget_index, index) :
          /\ selected_country_manual' = selected_country
          /\ widget_index' = index
          /\ ss_selected_country' =
                IF selected_country # ss_selected_country
                THEN selected_country ELSE ss_selected_country
    /\ pc' = "stats"
    /\ UNCHANGED << last_clicked, server_tz, feed_country, stats, last_event,
                    history >>

\* Lines 97-107.
BeginStats ==
    /\ pc = "stats"
    /\ stats_country' = ss_selected_country
    /\ \E clock \in Nows :
          /\ clock >= now
          /\ now' = clock
          /\ within_ttl' = (stats_country = ss_selected_country /\ clock = now)
    /\ row' = 1
    /\ outcome' = "none"
    /\ news_last_hour' = 0
    /\ news_today' = 0
    /\ source_counts' = << >>
    /\ ref_hour' = 0
    /\ ref_today' = 0
    /\ ref_sources' = << >>
    /\ exp_hour' = 0
    /\ exp_today' = 0
    /\ pc' = "loop"
    /\ UNCHANGED << selection, last_clicked, server_tz, feed_country, last_event >>

\* One pass of the outlet loop (lines 109-127).
StatsRow ==
    /\ pc = "loop"
    /\ row <= Len(CountryMedia(stats_country))
    /\ \E fetched \in FetchResults :
          LET media_name == CountryMedia(stats_country)[row].media_name
              acc == AfterRow([ news_last_hour |-> news_last_hour,
                                news_today |-> news_today,
                                source_counts |-> source_counts ],
                              media_name, TryBody(fetched, now, server_tz))
          IN  /\ outcome' = Outcome(fetched, TryBody(fetched, now, server_tz))
              /\ news_last_hour' = acc.news_last_hour
              /\ news_today' = acc.news_today
              /\ source_counts' = acc.source_counts
              /\ IF Fails(fetched)
                 THEN UNCHANGED << ref_hour, ref_today, ref_sources >>
                 ELSE /\ ref_hour' = ref_hour + HourCount(fetched, now, server_tz)
                      /\ ref_today' = ref_today + DayCount(fetched, now, server_tz)
                      /\ ref_sources' = DictSet(ref_sources, media_name,
                                                DayCount(fetched, now, server_tz))
              /\ IF fetched.ok
                 THEN /\ exp_hour' = exp_hour + RuleHourCount(fetched, now)
                      /\ exp_today' = exp_today + RuleDayCount(fetched, now)
                 ELSE UNCHANGED << exp_hour, exp_today >>
    /\ row' = row + 1
    /\ UNCHANGED << pc, selection, last_clicked, server_tz, now, stats_country,
                    feed_country, last_event, within_ttl >>

\* The loop is over; the metrics and the listing are shown (lines 129-134).
EndStats ==
    /\ pc = "loop"
    /\ row > Len(CountryMedia(stats_country))
    /\ outcome' = "none"
    /\ pc' = "click"
    /\ UNCHANGED << selection, last_clicked, server_tz, feed_country, now,
                    stats_country, row, news_last_hour, news_today,
                    source_counts, last_event, history >>

\* Lines 144-153.  last_clicked is 0 until the map was clicked.
ClickHandling ==
    /\ pc = "click"
    /\ ss_selected_country' =
          IF last_clicked # 0
          THEN ClickAssign(ResolvePoint(last_clicked), ss_selected_country)
          ELSE ss_selected_country
    /\ pc' = "feed"
    /\ UNCHANGED << selected_country_manual, widget_index, last_clicked,
                    server_tz, feed_country, stats, last_event, history >>

\* Lines 170-174: the feed panel filters the catalog again.  The script ends
\* and its local variables go; what the two panels were computed for stays on
\* the page.
RenderFeed ==
    /\ pc = "feed"
    /\ feed_country' = ss_selected_country
    /\ row' = 1
    /\ outcome' = "none"
    /\ news_last_hour' = 0
    /\ news_today' = 0
    /\ source_counts' = << >>
    /\ ref_hour' = 0
    /\ ref_today' = 0
    /\ ref_sources' = << >>
    /\ exp_hour' = 0
    /\ exp_today' = 0
    /\ within_ttl' = FALSE
    /\ pc' = "idle"
    /\ UNCHANGED << selection, last_clicked, server_tz, now, stats_country,
                    last_event >>

Next ==
    \/ UserSelect
    \/ UserClick
    \/ Rerun
    \/ StartRun
    \/ CountrySelector
    \/ BeginStats
    \/ StatsRow
    \/ EndStats
    \/ ClickHandling
    \/ RenderFeed

Spec == Init /\ [][Next]_vars

\* ----------------------------------------------------------------- claims

\* The place of a media name in string order.
Rank(media_name) == CHOOSE k \in 1..Len(MediaOrder) : MediaOrder[k] = media_name

RECURSIVE SumCounts(_)
SumCounts(d) == IF d = << >> THEN 0 ELSE Head(d).count + SumCounts(Tail(d))

\* Some boundary feature contains the point.
Contained(point) == \E k \in 1..Len(geojson) : point \in geojson[k].geometry

\* The first feature, in dataset order, that contains the point.
FirstContaining(point) ==
    CHOOSE k \in 1..Len(geojson) :
        /\ point \in geojson[k].geometry
        /\ \A j \in 1..(k - 1) : point \notin geojson[j].geometry

\* C1: when a script run has ended, the current selection is a country of
\* the outlet catalog (the selectbox's default, the first catalog country,
\* is the only fallback the code defines).
C1_SelectionInCatalog ==
    pc = "idle" => ss_selected_country \in AllCountries

\* C2: when the clicked point lies in no boundary geometry, point resolution
\* yields no country and the map-click handling leaves the current selection
\* as it was.
C2_OceanClickKeepsSelection ==
    [][ (pc = "click" /\ last_clicked # 0 /\ ~Contained(last_clicked))
           => /\ ResolvePoint(last_clicked) = NoneVal
              /\ ss_selected_country' = ss_selected_country ]_vars

\* A run has handled a click on a point outside every boundary.
C2_Witness ==
    /\ pc = "feed"
    /\ last_clicked # 0
    /\ ~Contained(last_clicked)
    /\ ss_selected_country \in AllCountries

\* C3: last write wins.  When a script run has ended, the current selection
\* is the key of the most recent event: of a resolved map click, or of an
\* explicit selection that the selectbox returned in this run.
C3_LastWriteWins ==
    ( /\ pc = "idle"
      /\ last_event.kind # "none"
      /\ (last_event.kind = "explicit" => selected_country_manual = last_event.key) )
    => ss_selected_country = last_event.key

\* C4: during and after the outlet loop the hour total, the today total and
\* the per-source counts are those of the loop run over the outlets that did
\* not fail, and the loop ends only behind the last outlet.
C4_FailureIsolation ==
    /\ pc \in {"loop", "click"} =>
          /\ news_last_hour = ref_hour
          /\ news_today = ref_today
          /\ source_counts = ref_sources
    /\ pc = "click" => row = Len(CountryMedia(stats_country)) + 1

\* The first outlet of france failed and the second one was still counted.
C4_Witness ==
    /\ pc = "loop"
    /\ row = 3
    /\ outcome = "counted"
    /\ stats_country = "france"
    /\ source_counts = << [source |-> "afp", count |-> 1] >>
    /\ news_last_hour = 1

\* C5: after the outlet loop the hour total counts every entry of a fetched
\* feed with a known publish time less than one hour before now, and the
\* today total every such entry on now's UTC calendar date; entries without a
\* usable publish time change neither.
C5_WindowCounts ==
    pc = "click" => (news_last_hour = exp_hour /\ news_today = exp_today)

\* C6: after the outlet loop the per-source counts sum to the today total
\* (the counts of outlets sharing a media name are added up).
C6_SourceCountsSumToToday ==
    pc = "click" => SumCounts(source_counts) = news_today

\* C7: the per-source listing is ordered by today-count descending, ties by
\* media name ascending.
C7_ListingOrder ==
    pc = "click" =>
        \A i, j \in 1..Len(NewsPerSource) :
            i < j =>
                \/ NewsPerSource[i].count > NewsPerSource[j].count
                \/ /\ NewsPerSource[i].count = NewsPerSource[j].count
                   /\ Rank(NewsPerSource[i].source) < Rank(NewsPerSource[j].source)

\* C8: after the map-click handling of a point that some feature contains,
\* the current selection is the normalized name of the first feature, in
\* dataset order, that contains the point.
C8_FirstMatch ==
    (pc = "feed" /\ last_clicked # 0 /\ Contained(last_clicked))
    => ss_selected_country =
          normalize_country(geojson[FirstContaining(last_clicked)].name)

\* A click on the point two features contain selected the earlier feature.
C8_Witness ==
    /\ pc = "feed"
    /\ last_clicked = 2
    /\ Cardinality({ k \in 1..Len(geojson) : 2 \in geojson[k].geometry }) = 2
    /\ ss_selected_country = "france"

\* C9: a statistics computation for the same country in the same minute as
\* the computation before it issues no feed fetch.
C9_NoFetchWithinTtl ==
    within_ttl => row = 1

\* C10: when a script run has ended, the statistics panel and the feed panel
\* were computed for the same country.
C10_PanelsSameCountry ==
    pc = "idle" => stats_country = feed_country

====
